---------------------------- MODULE Spec2Model ----------------------------
(***************************************************************************)
(* A model of zcash_dca.py: the accumulation ledger (AccumulationTracker), *)
(* the exchange gateway (KrakenClient) and the purchase sequence           *)
(* (ZCashDCABot.buy), run by one or two bot processes that share the       *)
(* tracking file zcash_accumulation.json.                                  *)
(*                                                                         *)
(* Amounts are exact decimals in the program.  Here a quantity of ZEC is a *)
(* whole number of 10^-8 ZEC, an amount or a price in EUR a whole number   *)
(* of cents, and the raw inputs (the float budget, the ticker's last       *)
(* price) whole numbers of 10^-3 EUR, so that the truncations of the code  *)
(* have something to truncate.  Every amount of the model stays far below  *)
(* the 28 significant digits of the decimal context, where the sums and    *)
(* the str()/Decimal() round trip of the program are exact.                *)
(***************************************************************************)
EXTENDS Integers, Sequences, FiniteSets, TLC

VARIABLES
    file,       \* the content of the tracking file on disk
    orders,     \* how many orders the exchange has accepted so far
    pc,         \* per process: where it stands
    tracker,    \* per process: the AccumulationTracker in memory
    loaded,     \* per process: which branch load_data took, and on what content
    req,        \* per process: the arguments and locals of the current buy
    calls,      \* per process: the external calls the current buy has made
    result,     \* per process: what the last buy returned
    entry       \* per process: tracker and file as they were when buy was entered

vars == <<file, orders, pc, tracker, loaded, req, calls, result, entry>>

Procs == {"a", "b"}

\* How many orders the exchange accepts in a run of the model.
MaxOrders == 2

-----------------------------------------------------------------------------
(* JSON values as they stand in the file.  A value is a tagged pair: a     *)
(* string holding the text of a decimal, a string that is no number, null, *)
(* a boolean, a plain string (a date, an order id), or an absent key.      *)

NumStr(n) == [t |-> "numstr", v |-> n]
BadStr == [t |-> "badstr", v |-> 0]
Null == [t |-> "null", v |-> 0]
Absent == [t |-> "absent", v |-> 0]
Str(n) == [t |-> "str", v |-> n]
Bool(b) == [t |-> "bool", v |-> IF b THEN 1 ELSE 0]

NoList == [t |-> "absent", items |-> <<>>]
NullList == [t |-> "null", items |-> <<>>]
List(s) == [t |-> "list", items |-> s]

\* File contents that are no JSON object carry no fields.
Plain(k) == [kind |-> k, total_zec |-> Absent, total_eur_spent |-> Absent,
             purchases |-> NoList]
Missing == Plain("missing")
EmptyFile == Plain("empty")
Garbage == Plain("garbage")
JsonArray == Plain("array")
\* A file that holds the first part of the document d and no more.
Partial(d) == [d EXCEPT !.kind = "partial"]
Object(tz, te, ps) == [kind |-> "object", total_zec |-> tz,
                       total_eur_spent |-> te, purchases |-> ps]

-----------------------------------------------------------------------------
(* Decimal arithmetic.                                                     *)

\* floor(num * 10^k / den), digit by digit as in long division.
RECURSIVE LongDiv(_, _, _, _)
LongDiv(q, r, den, k) ==
    IF k = 0 THEN q
    ELSE LongDiv(q * 10 + (r * 10) \div den, (r * 10) % den, den, k - 1)

\* x.quantize(Decimal('0.01'), rounding=ROUND_DOWN) of a value in 10^-3:
\* truncation toward zero, in cents.
QuantizeCents(mills) ==
    IF mills >= 0 THEN mills \div 10 ELSE -((-mills) \div 10)

\* (eur / zec).quantize(Decimal('0.01'), rounding=ROUND_DOWN), in cents per
\* ZEC, of an amount in cents and a quantity in 10^-8 ZEC.
PricePerZec(eur, zec) == LongDiv(eur \div zec, eur % zec, zec, 8)

-----------------------------------------------------------------------------
(* PurchaseRecord.                                                         *)

PurchaseRecord(date, zec_bought, eur_spent, price_per_zec, order_id, dry_run) ==
    [date |-> date, zec_bought |-> zec_bought, eur_spent |-> eur_spent,
     price_per_zec |-> price_per_zec, order_id |-> order_id,
     dry_run |-> dry_run]

\* A to_dict that leaves the order id out.
to_dict_NoOrderId(p) ==
    [date |-> p.date,
     zec_bought |-> NumStr(p.zec_bought),
     eur_spent |-> NumStr(p.eur_spent),
     price_per_zec |-> NumStr(p.price_per_zec),
     order_id |-> Absent,
     dry_run |-> p.dry_run]

to_dict(p) ==
    [date |-> p.date,
     zec_bought |-> NumStr(p.zec_bought),
     eur_spent |-> NumStr(p.eur_spent),
     price_per_zec |-> NumStr(p.price_per_zec),
     order_id |-> p.order_id,
     dry_run |-> p.dry_run]

\* Decimal(x) of a JSON value: "ok", or the exception it raises.
DecimalOf(x) ==
    CASE x.t = "numstr" -> "ok"
      [] x.t = "badstr" -> "InvalidOperation"
      [] OTHER -> "TypeError"

\* data[key] followed by Decimal(...): a missing key raises KeyError first.
RequiredDecimal(x) == IF x.t = "absent" THEN "KeyError" ELSE DecimalOf(x)

\* from_dict(d): "ok", or the first exception in evaluation order.
from_dict_error(d) ==
    CASE d.date.t = "absent" -> "KeyError"
      [] RequiredDecimal(d.zec_bought) # "ok" -> RequiredDecimal(d.zec_bought)
      [] RequiredDecimal(d.eur_spent) # "ok" -> RequiredDecimal(d.eur_spent)
      [] RequiredDecimal(d.price_per_zec) # "ok" -> RequiredDecimal(d.price_per_zec)
      [] OTHER -> "ok"

from_dict(d) ==
    PurchaseRecord(d.date, d.zec_bought.v, d.eur_spent.v, d.price_per_zec.v,
                   IF d.order_id.t = "absent" THEN Null ELSE d.order_id,
                   IF d.dry_run.t = "absent" THEN Bool(FALSE) ELSE d.dry_run)

-----------------------------------------------------------------------------
(* AccumulationTracker.                                                    *)

Tracker(tz, te, ps) == [total_zec |-> tz, total_eur_spent |-> te, purchases |-> ps]

\* _initialize_empty_data
EmptyTracker == Tracker(0, 0, <<>>)

\* data.get(key, '0') followed by Decimal(...)
OptionalDecimal(x) == IF x.t = "absent" THEN "ok" ELSE DecimalOf(x)
OptionalValue(x) == IF x.t = "absent" THEN 0 ELSE x.v

\* The first exception load_data meets in the file content f, or "ok".
LoadError(f) ==
    LET items == f.purchases.items
        bad == {i \in 1..Len(items) : from_dict_error(items[i]) # "ok"}
        first == CHOOSE i \in bad : \A j \in bad : i <= j
    IN  CASE f.kind \in {"empty", "partial", "garbage"} -> "JSONDecodeError"
          [] f.kind = "array" -> "AttributeError"
          [] OptionalDecimal(f.total_zec) # "ok" -> OptionalDecimal(f.total_zec)
          [] OptionalDecimal(f.total_eur_spent) # "ok" ->
                 OptionalDecimal(f.total_eur_spent)
          [] f.purchases.t = "null" -> "TypeError"
          [] bad # {} -> from_dict_error(items[first])
          [] OTHER -> "ok"

\* The exceptions load_data catches.
Caught == {"JSONDecodeError", "KeyError", "InvalidOperation"}

\* What the file content f parses to when nothing fails.
Parsed(f) ==
    Tracker(OptionalValue(f.total_zec), OptionalValue(f.total_eur_spent),
            [i \in 1..Len(f.purchases.items) |-> from_dict(f.purchases.items[i])])

\* A load_data whose except branch does not reset the tracker: the totals
\* and the records assigned before the exception stay.
load_data_KeepsPart(f) ==
    IF f.kind = "missing" THEN [outcome |-> "fresh", tracker |-> EmptyTracker]
    ELSE IF LoadError(f) = "ok" THEN [outcome |-> "loaded", tracker |-> Parsed(f)]
    ELSE IF LoadError(f) \in Caught
         THEN [outcome |-> "warned",
               tracker |->
                   IF f.kind # "object" THEN EmptyTracker
                   ELSE IF OptionalDecimal(f.total_zec) # "ok" THEN EmptyTracker
                   ELSE IF OptionalDecimal(f.total_eur_spent) # "ok"
                        THEN Tracker(OptionalValue(f.total_zec), 0, <<>>)
                   ELSE Tracker(OptionalValue(f.total_zec),
                                OptionalValue(f.total_eur_spent), <<>>)]
    ELSE [outcome |-> "raised", tracker |-> EmptyTracker]

\* load_data on a fresh tracker: the branch taken ("fresh": no file,
\* "loaded", "warned": the except branch, "raised": an exception that the
\* except clause does not catch leaves load_data) and the tracker after it.
load_data(f) ==
    IF f.kind = "missing" THEN [outcome |-> "fresh", tracker |-> EmptyTracker]
    ELSE IF LoadError(f) = "ok" THEN [outcome |-> "loaded", tracker |-> Parsed(f)]
    ELSE IF LoadError(f) \in Caught
         THEN [outcome |-> "warned", tracker |-> EmptyTracker]
    ELSE [outcome |-> "raised", tracker |-> EmptyTracker]

\* The document save_data writes.
Document(t) ==
    Object(NumStr(t.total_zec), NumStr(t.total_eur_spent),
           List([i \in 1..Len(t.purchases) |-> to_dict(t.purchases[i])]))

\* add_purchase with the update of total_eur_spent left out.
Appended_ForgetsSpent(t, p) ==
    Tracker(t.total_zec + p.zec_bought, t.total_eur_spent,
            Append(t.purchases, p))

\* add_purchase, before its save_data.
Appended(t, p) ==
    Tracker(t.total_zec + p.zec_bought, t.total_eur_spent + p.eur_spent,
            Append(t.purchases, p))

-----------------------------------------------------------------------------
(* The exchange and the inputs.                                            *)

\* The budgets given to buy (amount_eur), in 10^-3 EUR: negative, positive
\* but below one cent, and 10.005.
Amounts == {-1000, 5, 10005}

\* The last prices the ticker may report, in 10^-3 EUR: 0.009 and 33.349.
Tickers == {9, 33349}

\* The fills the exchange may report for an accepted order: nothing filled,
\* and 0.3 ZEC for 10.00 EUR.
Fills == {[filled |-> 0, cost |-> 0], [filled |-> 30000000, cost |-> 1000]}

\* datetime.now().isoformat(): a timestamp; the clock is read as the number
\* of orders the exchange has accepted.
Now(n) == Str(n)

\* A sizing that rounds up to the next 10^-8 ZEC.
calculate_zec_amount_RoundsUp(eur_amount, price) ==
    LongDiv(eur_amount \div price, eur_amount % price, price, 8) + 1

\* KrakenClient.calculate_zec_amount, in 10^-8 ZEC, of cents and cents > 0.
calculate_zec_amount(eur_amount, price) ==
    LongDiv(eur_amount \div price, eur_amount % price, price, 8)

\* A buy that records the price it was quoted before the trade.
avg_price_Quoted(fill, current_price) == current_price

\* The average price buy records for a fill.
avg_price(fill, current_price) ==
    IF fill.filled > 0 THEN PricePerZec(fill.cost, fill.filled)
    ELSE current_price

-----------------------------------------------------------------------------
(* What buy returns: a dictionary, as its keys and their values.           *)

NoDict == [date |-> Absent, zec_bought |-> Absent, eur_spent |-> Absent,
           price_per_zec |-> Absent, order_id |-> Absent, dry_run |-> Absent]

NoResult == [keys |-> {}, success |-> FALSE, dry_run |-> FALSE,
             purchase |-> NoDict, total |-> Absent, error |-> ""]

\* {'success': False, 'error': str(e)}
Failure(e) == [NoResult EXCEPT !.keys = {"success", "error"}, !.error = e]

\* {'success': True, 'dry_run': True, 'purchase': ..., 'simulated_total_zec': ...}
Simulated(purchase, total) ==
    [keys |-> {"success", "dry_run", "purchase", "simulated_total_zec"},
     success |-> TRUE, dry_run |-> TRUE, purchase |-> to_dict(purchase),
     total |-> NumStr(total), error |-> ""]

\* {'success': True, 'dry_run': False, 'purchase': ..., 'total_zec': ...}
Bought(purchase, total) ==
    [keys |-> {"success", "dry_run", "purchase", "total_zec"},
     success |-> TRUE, dry_run |-> FALSE, purchase |-> to_dict(purchase),
     total |-> NumStr(total), error |-> ""]

NoRecord == PurchaseRecord(Absent, 0, 0, 0, Null, Bool(FALSE))
NoOrder == [filled |-> 0, cost |-> 0]
NoReq == [active |-> FALSE, amount |-> 0, dry_run |-> FALSE, price |-> 0,
          zec_amount |-> 0, order |-> NoOrder, purchase |-> NoRecord]
NotLoaded == [outcome |-> "none", content |-> Missing]
NoEntry == [tracker |-> EmptyTracker, file |-> Missing]

Call(name, ok) == [call |-> name, ok |-> ok]

-----------------------------------------------------------------------------
(* The file system.                                                        *)

\* What the file holds after a buffered write of document doc through a
\* descriptor opened with 'w'.  The open has emptied the file; when it is no
\* longer empty another process has written since, and the write at offset 0
\* either covers that content or leaves its tail behind the document.
WriteOutcomes(f, doc) ==
    IF f.kind = "empty" THEN {doc} ELSE {doc, [doc EXCEPT !.kind = "mixed"]}

\* What the file holds when the write stops half-way (the disk is full, the
\* process is killed): what the open left, or the first part of doc.
BrokenWriteOutcomes(f, doc) == {f, Partial(doc)}

-----------------------------------------------------------------------------
(* The state after construction of nothing: no process, and a tracking     *)
(* file left by earlier runs or by the operator.                           *)

Rec1 == [date |-> Str(0), zec_bought |-> NumStr(30000000),
         eur_spent |-> NumStr(1000), price_per_zec |-> NumStr(3333),
         order_id |-> Str(0), dry_run |-> Bool(FALSE)]

GoodFile == Object(NumStr(30000000), NumStr(1000), List(<<Rec1>>))

InitialFiles ==
    { Missing, EmptyFile, Garbage, JsonArray, GoodFile,
      Object(Absent, Absent, NoList),
      Object(Absent, Absent, List(<<Rec1>>)),
      Object(NumStr(60000000), NumStr(1000), List(<<Rec1>>)),
      Object(BadStr, NumStr(1000), List(<<Rec1>>)),
      Object(NumStr(30000000), Null, List(<<Rec1>>)),
      Object(NumStr(30000000), NumStr(1000), NullList),
      Object(NumStr(30000000), NumStr(1000),
             List(<<Rec1, [Rec1 EXCEPT !.zec_bought = Absent]>>)),
      Object(NumStr(30000000), NumStr(1000),
             List(<<[Rec1 EXCEPT !.eur_spent = BadStr]>>)),
      Object(NumStr(30000000), NumStr(1000),
             List(<<[Rec1 EXCEPT !.price_per_zec = Null]>>)) }

InitProcs ==
    /\ orders = 0
    /\ pc = [p \in Procs |-> "none"]
    /\ tracker = [p \in Procs |-> EmptyTracker]
    /\ loaded = [p \in Procs |-> NotLoaded]
    /\ req = [p \in Procs |-> NoReq]
    /\ calls = [p \in Procs |-> <<>>]
    /\ result = [p \in Procs |-> NoResult]
    /\ entry = [p \in Procs |-> NoEntry]

Init == file \in InitialFiles /\ InitProcs

-----------------------------------------------------------------------------
(* The bot processes.  pc: "none" (no bot), "ready" (constructed, between  *)
(* commands), and inside buy "fetch" (before get_current_price), "exec"    *)
(* (before execute_market_buy), "record" (before add_purchase), "write"    *)
(* (inside save_data, the file opened).                                    *)

\* A buy without its except clause: a failure leaves buy as an exception
\* and ends the process.
Return_Raises(p, r) ==
    /\ pc' = [pc EXCEPT ![p] = IF r.success THEN "ready" ELSE "none"]
    /\ result' = [result EXCEPT ![p] = IF r.success THEN r ELSE NoResult]

\* buy returns r.
Return(p, r) ==
    /\ pc' = [pc EXCEPT ![p] = "ready"]
    /\ result' = [result EXCEPT ![p] = r]

\* ZCashDCABot.__init__: AccumulationTracker.__init__ and its load_data.
\* An exception that leaves load_data leaves the constructor: no bot.
Construct(p) ==
    /\ pc[p] = "none"
    /\ LET r == load_data(file)
       IN  /\ loaded' = [loaded EXCEPT ![p] =
                            [outcome |-> r.outcome, content |-> file]]
           /\ tracker' = [tracker EXCEPT ![p] = r.tracker]
           /\ pc' = [pc EXCEPT ![p] =
                        IF r.outcome = "raised" THEN "none" ELSE "ready"]
    /\ UNCHANGED <<file, orders, req, calls, result, entry>>

\* A buy that does not check its budget before it asks for the price.
BuyBegin_NoCheck(p, amounts, modes) ==
    /\ pc[p] = "ready"
    /\ \E amount_eur \in amounts, dry_run \in modes :
         req' = [req EXCEPT ![p] =
                    [NoReq EXCEPT !.active = TRUE,
                                  !.amount = QuantizeCents(amount_eur),
                                  !.dry_run = dry_run]]
    /\ pc' = [pc EXCEPT ![p] = "fetch"]
    /\ result' = [result EXCEPT ![p] = NoResult]
    /\ calls' = [calls EXCEPT ![p] = <<>>]
    /\ entry' = [entry EXCEPT ![p] = [tracker |-> tracker[p], file |-> file]]
    /\ UNCHANGED <<file, orders, tracker, loaded>>

\* buy, up to its first external call: the budget is truncated to cents
\* and checked.
BuyBegin(p, amounts, modes) ==
    /\ pc[p] = "ready"
    /\ \E amount_eur \in amounts, dry_run \in modes :
         LET eur_amount == QuantizeCents(amount_eur)
         IN  /\ req' = [req EXCEPT ![p] =
                    [NoReq EXCEPT !.active = TRUE, !.amount = eur_amount,
                                  !.dry_run = dry_run]]
             /\ IF eur_amount <= 0
                THEN Return(p, Failure("Amount must be greater than 0"))
                ELSE /\ pc' = [pc EXCEPT ![p] = "fetch"]
                     /\ result' = [result EXCEPT ![p] = NoResult]
    /\ calls' = [calls EXCEPT ![p] = <<>>]
    /\ entry' = [entry EXCEPT ![p] = [tracker |-> tracker[p], file |-> file]]
    /\ UNCHANGED <<file, orders, tracker, loaded>>

\* The dry-run branch with the simulated record added to the tracker.
Simulate_Records(p, current_price, zec_amount) ==
    LET purchase == PurchaseRecord(Now(orders), zec_amount, req[p].amount,
                                   current_price, Null, Bool(TRUE))
        simulated_total == tracker[p].total_zec + zec_amount
    IN  /\ req' = [req EXCEPT ![p].price = current_price,
                              ![p].zec_amount = zec_amount,
                              ![p].purchase = purchase]
        /\ Return(p, Simulated(purchase, simulated_total))
        /\ tracker' = [tracker EXCEPT ![p] = Appended(@, purchase)]

\* The dry-run branch of buy: the simulated record is built and reported,
\* the tracker is only read.
Simulate(p, current_price, zec_amount) ==
    LET purchase == PurchaseRecord(Now(orders), zec_amount, req[p].amount,
                                   current_price, Null, Bool(TRUE))
        simulated_total == tracker[p].total_zec + zec_amount
    IN  /\ req' = [req EXCEPT ![p].price = current_price,
                              ![p].zec_amount = zec_amount,
                              ![p].purchase = purchase]
        /\ Return(p, Simulated(purchase, simulated_total))
        /\ UNCHANGED tracker

\* A buy whose sizing gives a quantity of zero at a price of 0.00 and goes
\* on.
FetchPrice_SizesZero(p) ==
    /\ pc[p] = "fetch"
    /\ \/ /\ calls' = [calls EXCEPT ![p] = Append(@, Call("fetch_ticker", FALSE))]
          /\ Return(p, Failure("Failed to fetch price from Kraken"))
          /\ UNCHANGED <<req, tracker>>
       \/ /\ calls' = [calls EXCEPT ![p] = Append(@, Call("fetch_ticker", TRUE))]
          /\ \E last \in Tickers :
               LET current_price == QuantizeCents(last)
                   zec_amount == IF current_price = 0 THEN 0
                                 ELSE calculate_zec_amount(req[p].amount,
                                                           current_price)
               IN  IF req[p].dry_run
                   THEN Simulate(p, current_price, zec_amount)
                   ELSE /\ pc' = [pc EXCEPT ![p] = "exec"]
                        /\ req' = [req EXCEPT ![p].price = current_price,
                                              ![p].zec_amount = zec_amount]
                        /\ UNCHANGED <<result, tracker>>
    /\ UNCHANGED <<file, orders, loaded, entry>>

\* get_current_price, calculate_zec_amount and, in a dry run, the rest of buy.
FetchPrice(p) ==
    /\ pc[p] = "fetch"
    /\ \/ /\ calls' = [calls EXCEPT ![p] = Append(@, Call("fetch_ticker", FALSE))]
          /\ Return(p, Failure("Failed to fetch price from Kraken"))
          /\ UNCHANGED <<req, tracker>>
       \/ /\ calls' = [calls EXCEPT ![p] = Append(@, Call("fetch_ticker", TRUE))]
          /\ \E last \in Tickers :
               LET current_price == QuantizeCents(last)
                   zec_amount == calculate_zec_amount(req[p].amount, current_price)
               IN  IF current_price = 0
                   THEN /\ Return(p, Failure("DivisionByZero"))
                        /\ req' = [req EXCEPT ![p].price = current_price]
                        /\ UNCHANGED tracker
                   ELSE IF req[p].dry_run
                   THEN Simulate(p, current_price, zec_amount)
                   ELSE /\ pc' = [pc EXCEPT ![p] = "exec"]
                        /\ req' = [req EXCEPT ![p].price = current_price,
                                              ![p].zec_amount = zec_amount]
                        /\ UNCHANGED <<result, tracker>>
    /\ UNCHANGED <<file, orders, loaded, entry>>

\* A buy that records the purchase it expects before the order is placed:
\* the failed order leaves the record in the tracker.
ExecuteFails_Records(p) ==
    /\ calls' = [calls EXCEPT ![p] =
                    Append(@, Call("create_market_buy_order", FALSE))]
    /\ Return(p, Failure("Failed to execute order on Kraken"))
    /\ tracker' = [tracker EXCEPT ![p] =
                      Appended(@, PurchaseRecord(Now(orders), req[p].zec_amount,
                                                 req[p].amount, req[p].price,
                                                 Null, Bool(FALSE)))]
    /\ UNCHANGED <<req, orders>>

\* A buy that submits the order again when execute_market_buy raises.
ExecuteFails_Retries(p) ==
    /\ calls' = [calls EXCEPT ![p] =
                    Append(@, Call("create_market_buy_order", FALSE))]
    /\ UNCHANGED <<pc, result, req, orders, tracker>>

\* execute_market_buy raises: buy returns the failure.
ExecuteFails(p) ==
    /\ calls' = [calls EXCEPT ![p] =
                    Append(@, Call("create_market_buy_order", FALSE))]
    /\ Return(p, Failure("Failed to execute order on Kraken"))
    /\ UNCHANGED <<req, orders, tracker>>

\* execute_market_buy returns an order, and the PurchaseRecord is built
\* from its filled quantity and its cost.
ExecuteFills(p) ==
    /\ orders < MaxOrders
    /\ calls' = [calls EXCEPT ![p] =
                    Append(@, Call("create_market_buy_order", TRUE))]
    /\ orders' = orders + 1
    /\ \E fill \in Fills :
         req' = [req EXCEPT ![p].order = fill,
                            ![p].purchase =
                    PurchaseRecord(Now(orders'), fill.filled, fill.cost,
                                   avg_price(fill, req[p].price),
                                   Str(orders'), Bool(FALSE))]
    /\ pc' = [pc EXCEPT ![p] = "record"]
    /\ UNCHANGED <<result, tracker>>

Execute(p) ==
    /\ pc[p] = "exec"
    /\ (ExecuteFails(p) \/ ExecuteFills(p))
    /\ UNCHANGED <<file, loaded, entry>>

\* An add_purchase that reads the file again before it appends.
AddPurchase_Reloads(p) ==
    /\ pc[p] = "record"
    /\ tracker' = [tracker EXCEPT ![p] =
                      Appended(IF load_data(file).outcome = "loaded"
                               THEN load_data(file).tracker ELSE @,
                               req[p].purchase)]
    /\ \/ /\ calls' = [calls EXCEPT ![p] = Append(@, Call("open", FALSE))]
          /\ Return(p, Failure("OSError"))
          /\ UNCHANGED file
       \/ /\ calls' = [calls EXCEPT ![p] = Append(@, Call("open", TRUE))]
          /\ file' = EmptyFile
          /\ pc' = [pc EXCEPT ![p] = "write"]
          /\ UNCHANGED result
    /\ UNCHANGED <<orders, loaded, req, entry>>

\* add_purchase up to the open(tracking_file, 'w') of its save_data: the
\* record is appended and the totals updated in memory; the open fails and
\* leaves the file alone, or empties it.
AddPurchase(p) ==
    /\ pc[p] = "record"
    /\ tracker' = [tracker EXCEPT ![p] = Appended(@, req[p].purchase)]
    /\ \/ /\ calls' = [calls EXCEPT ![p] = Append(@, Call("open", FALSE))]
          /\ Return(p, Failure("OSError"))
          /\ UNCHANGED file
       \/ /\ calls' = [calls EXCEPT ![p] = Append(@, Call("open", TRUE))]
          /\ file' = EmptyFile
          /\ pc' = [pc EXCEPT ![p] = "write"]
          /\ UNCHANGED result
    /\ UNCHANGED <<orders, loaded, req, entry>>

\* The json.dump and the close of save_data, and the rest of buy.
WriteData(p) ==
    /\ pc[p] = "write"
    /\ \/ /\ calls' = [calls EXCEPT ![p] = Append(@, Call("write", TRUE))]
          /\ file' \in WriteOutcomes(file, Document(tracker[p]))
          /\ Return(p, Bought(req[p].purchase, tracker[p].total_zec))
       \/ /\ calls' = [calls EXCEPT ![p] = Append(@, Call("write", FALSE))]
          /\ file' \in BrokenWriteOutcomes(file, Document(tracker[p]))
          /\ Return(p, Failure("OSError"))
    /\ UNCHANGED <<orders, tracker, loaded, req, entry>>

\* stats: reads the tracker and prints; nothing is assigned.
Stats(p) ==
    /\ pc[p] = "ready"
    /\ UNCHANGED vars

\* The process ends: it exits between commands, or is killed anywhere.
\* Its memory is gone; a write under way stops where it is.
Crash(p) ==
    /\ pc[p] # "none"
    /\ file' \in IF pc[p] = "write"
                 THEN BrokenWriteOutcomes(file, Document(tracker[p]))
                 ELSE {file}
    /\ pc' = [pc EXCEPT ![p] = "none"]
    /\ tracker' = [tracker EXCEPT ![p] = EmptyTracker]
    /\ loaded' = [loaded EXCEPT ![p] = NotLoaded]
    /\ req' = [req EXCEPT ![p] = NoReq]
    /\ calls' = [calls EXCEPT ![p] = <<>>]
    /\ result' = [result EXCEPT ![p] = NoResult]
    /\ entry' = [entry EXCEPT ![p] = NoEntry]
    /\ UNCHANGED orders

Step(p) ==
    \/ Construct(p)
    \/ BuyBegin(p, Amounts, BOOLEAN)
    \/ FetchPrice(p)
    \/ Execute(p)
    \/ AddPurchase(p)
    \/ WriteData(p)
    \/ Stats(p)
    \/ Crash(p)

\* One bot at a time, as the operator is asked to ensure.
Next == Step("a")

Spec == Init /\ [][Next]_vars

\* A bot inside buy goes on to its next statement unless it is killed: the
\* calls to the exchange and to the file system return or raise.
BuyStep(p) == FetchPrice(p) \/ Execute(p) \/ AddPurchase(p) \/ WriteData(p)

SpecFair == Spec /\ WF_vars(BuyStep("a"))

\* Two bots on the same tracking file, each making live purchases with a
\* valid budget, started on a file that loads.
InitConcurrent == file \in {Missing, GoodFile} /\ InitProcs

LiveStep(p) ==
    \/ Construct(p)
    \/ BuyBegin(p, {10005}, {FALSE})
    \/ FetchPrice(p)
    \/ Execute(p)
    \/ AddPurchase(p)
    \/ WriteData(p)

NextConcurrent == \E p \in Procs : LiveStep(p)

SpecConcurrent == InitConcurrent /\ [][NextConcurrent]_vars

-----------------------------------------------------------------------------
(* calculate_zec_amount alone, on budgets from 0.01 to 100.00 EUR at       *)
(* prices around 33.33 EUR, and on budgets of a few cents at prices of a   *)
(* few cents.                                                              *)

\* How many prices above 33.26 EUR are tried.
PriceSpan == 15

SizingInputs ==
    ({1, 2, 3, 999, 1000, 5000, 10000} \X (3326..(3326 + PriceSpan)))
        \cup ({1, 2, 3} \X {1, 3, 7})

InitSizing ==
    /\ file = Missing
    /\ orders = 0
    /\ pc = [p \in Procs |-> IF p = "a" THEN "size" ELSE "none"]
    /\ tracker = [p \in Procs |-> EmptyTracker]
    /\ loaded = [p \in Procs |-> NotLoaded]
    /\ \E input \in SizingInputs :
         req = [p \in Procs |->
                   IF p = "a"
                   THEN [NoReq EXCEPT !.active = TRUE, !.amount = input[1],
                                      !.price = input[2]]
                   ELSE NoReq]
    /\ calls = [p \in Procs |-> <<>>]
    /\ result = [p \in Procs |-> NoResult]
    /\ entry = [p \in Procs |-> NoEntry]

\* zec_amount = self.kraken.calculate_zec_amount(eur_amount, current_price)
Size(p) ==
    /\ pc[p] = "size"
    /\ req' = [req EXCEPT ![p].zec_amount =
                  calculate_zec_amount(req[p].amount, req[p].price)]
    /\ pc' = [pc EXCEPT ![p] = "sized"]
    /\ UNCHANGED <<file, orders, tracker, loaded, calls, result, entry>>

NextSizing == Size("a")

SpecSizing == InitSizing /\ [][NextSizing]_vars

-----------------------------------------------------------------------------
(* save_data followed by load_data, on ledgers of up to MaxLen records     *)
(* with any totals: a tracker saves its ledger, the process ends, and a    *)
(* new bot is constructed on the file.                                     *)

MaxLen == 2

\* A filled live purchase, a live purchase with nothing filled, a simulated
\* purchase without order id, and a purchase of one unit for one cent.
SampleRecords ==
    { PurchaseRecord(Str(1), 30000000, 1000, 3333, Str(1), Bool(FALSE)),
      PurchaseRecord(Str(2), 0, 0, 3334, Str(2), Bool(FALSE)),
      PurchaseRecord(Str(3), 29994001, 1000, 3334, Null, Bool(TRUE)),
      PurchaseRecord(Str(4), 1, 1, 1, Null, Bool(FALSE)) }

SampleLedgers ==
    { Tracker(tz, te, ps) :
        tz \in {0, 30000001}, te \in {0, 1001},
        ps \in UNION {[1..n -> SampleRecords] : n \in 0..MaxLen} }

InitRoundTrip ==
    /\ file = Missing
    /\ orders = 0
    /\ pc = [p \in Procs |-> IF p = "a" THEN "save" ELSE "none"]
    /\ \E t \in SampleLedgers :
         tracker = [p \in Procs |-> IF p = "a" THEN t ELSE EmptyTracker]
    /\ loaded = [p \in Procs |-> NotLoaded]
    /\ req = [p \in Procs |-> NoReq]
    /\ calls = [p \in Procs |-> <<>>]
    /\ result = [p \in Procs |-> NoResult]
    /\ entry = [p \in Procs |-> NoEntry]

\* save_data, complete, and the end of the process; entry keeps the ledger
\* that was saved.
SaveData(p) ==
    /\ pc[p] = "save"
    /\ file' = Document(tracker[p])
    /\ entry' = [entry EXCEPT ![p] = [tracker |-> tracker[p], file |-> file]]
    /\ tracker' = [tracker EXCEPT ![p] = EmptyTracker]
    /\ pc' = [pc EXCEPT ![p] = "none"]
    /\ UNCHANGED <<orders, loaded, req, calls, result>>

NextRoundTrip == SaveData("a") \/ Construct("a")

SpecRoundTrip == InitRoundTrip /\ [][NextRoundTrip]_vars

-----------------------------------------------------------------------------
(* The vocabulary of the properties.                                       *)

RECURSIVE SumZec(_)
SumZec(ps) == IF ps = <<>> THEN 0 ELSE ps[1].zec_bought + SumZec(Tail(ps))

RECURSIVE SumEur(_)
SumEur(ps) == IF ps = <<>> THEN 0 ELSE ps[1].eur_spent + SumEur(Tail(ps))

\* The ledger invariant: each total is the sum over the records.
Consistent(t) ==
    /\ t.total_zec = SumZec(t.purchases)
    /\ t.total_eur_spent = SumEur(t.purchases)

\* The current buy of p has made the external call name with outcome ok.
Did(p, name, ok) == \E i \in 1..Len(calls[p]) : calls[p][i] = Call(name, ok)

\* The last buy of p has returned.
Returned(p) == pc[p] = "ready" /\ req[p].active

\* The last buy of p was live, and its order and its save both succeeded.
LiveSuccess(p) ==
    /\ Returned(p)
    /\ Did(p, "create_market_buy_order", TRUE)
    /\ Did(p, "write", TRUE)

\* The last buy of p was live, its order succeeded and its save failed.
SaveFailed(p) ==
    /\ Returned(p)
    /\ Did(p, "create_market_buy_order", TRUE)
    /\ (Did(p, "open", FALSE) \/ Did(p, "write", FALSE))

\* The ledger p held when it entered its current buy, with the record of
\* that buy appended.
NewLedger(p) == Appended(entry[p].tracker, req[p].purchase)

\* The file holds a complete ledger document.
Loads(f) == f.kind = "object" /\ LoadError(f) = "ok"

-----------------------------------------------------------------------------
(* C1.  Starting from an empty ledger, after each add_purchase of a        *)
(* successful live purchase the total quantity is the sum of the records'  *)
(* quantities and the total spent the sum of the records' amounts, in      *)
(* memory and in the file just saved, which is the document of the ledger  *)
(* in memory.                                                              *)
C1_TotalsMatchRecords ==
    \A p \in Procs :
        loaded[p].outcome \in {"fresh", "warned"} =>
            /\ Consistent(tracker[p])
            /\ LiveSuccess(p) =>
                   /\ file = Document(tracker[p])
                   /\ Loads(file)
                   /\ Consistent(Parsed(file))
                   /\ tracker[p] = NewLedger(p)

\* Two successful live purchases in a row on a ledger that started empty,
\* the second with a non-zero fill.
C1_Witness ==
    /\ loaded["a"].outcome = "fresh"
    /\ LiveSuccess("a")
    /\ Len(tracker["a"].purchases) = 2
    /\ req["a"].purchase.zec_bought > 0

-----------------------------------------------------------------------------
(* C2.  While add_purchase saves over a complete ledger, whatever happens  *)
(* (the write completes, fails, or the process is killed), the file holds  *)
(* the complete prior ledger or the complete new ledger, never anything    *)
(* else.                                                                   *)
C2_FileReplacedWholesale ==
    [][\A p \in Procs :
          (pc[p] \in {"record", "write"} /\ Loads(entry[p].file)) =>
              file' \in {entry[p].file, Document(NewLedger(p))}]_vars

-----------------------------------------------------------------------------
(* C3.  When the write of add_purchase cannot be completed, the ledger in  *)
(* memory holds the appended record and the incremented totals, and the    *)
(* file is the valid ledger it was before the call.                        *)
C3_FailedSaveKeepsFile ==
    \A p \in Procs :
        (SaveFailed(p) /\ Loads(entry[p].file)) =>
            /\ tracker[p] = NewLedger(p)
            /\ file = entry[p].file

-----------------------------------------------------------------------------
(* C4.  When the order succeeded and the save failed, buy returns a        *)
(* partial success: a result that reports the trade, and that is not the   *)
(* result of a failed order.                                               *)
C4_PartialSuccessReported ==
    \A p \in Procs :
        SaveFailed(p) =>
            /\ "purchase" \in result[p].keys
            /\ result[p].purchase = to_dict(req[p].purchase)
            /\ result[p] # Failure("Failed to execute order on Kraken")

-----------------------------------------------------------------------------
(* C5.  A dry-run buy, at every point and however the price fetch ends,    *)
(* leaves the ledger in memory and the file as they were on entry, submits *)
(* no order and opens no file.                                             *)
C5_DryRunLeavesLedger ==
    \A p \in Procs :
        (req[p].active /\ req[p].dry_run) =>
            /\ tracker[p] = entry[p].tracker
            /\ file = entry[p].file
            /\ \A i \in 1..Len(calls[p]) : calls[p][i].call = "fetch_ticker"

\* A dry run that returned its simulated record, on a ledger with a record.
C5_Witness ==
    /\ Returned("a")
    /\ req["a"].dry_run
    /\ result["a"].success
    /\ "simulated_total_zec" \in result["a"].keys
    /\ result["a"].purchase.dry_run = Bool(TRUE)
    /\ Len(tracker["a"].purchases) = 1

-----------------------------------------------------------------------------
(* C6.  When the price fetch or the order fails, buy returns a failed      *)
(* result, and the ledger in memory and the file are what they were on     *)
(* entry.                                                                  *)
C6_FailedBuyLeavesLedger ==
    \A p \in Procs :
        (Returned(p) /\ (Did(p, "fetch_ticker", FALSE)
                            \/ Did(p, "create_market_buy_order", FALSE))) =>
            /\ ~result[p].success
            /\ result[p].keys = {"success", "error"}
            /\ tracker[p] = entry[p].tracker
            /\ file = entry[p].file

\* A live buy whose order failed, on a ledger with a record.
C6_Witness ==
    /\ Returned("a")
    /\ Did("a", "create_market_buy_order", FALSE)
    /\ result["a"].error = "Failed to execute order on Kraken"
    /\ Len(tracker["a"].purchases) = 1

\* A buy whose price fetch failed.
C6_WitnessFetch ==
    /\ Returned("a")
    /\ Did("a", "fetch_ticker", FALSE)
    /\ result["a"].error = "Failed to fetch price from Kraken"

-----------------------------------------------------------------------------
(* C7.  Two bots that appended to the same prior ledger, whose orders were *)
(* both accepted and whose saves both succeeded, leave a file that holds   *)
(* the ledger of one of them alone: the prior records and one of the two   *)
(* new records, the other being in no record of the file and in neither    *)
(* total.                                                                  *)
BothBought(p, q) ==
    /\ p # q
    /\ LiveSuccess(p)
    /\ LiveSuccess(q)
    /\ entry[p].tracker = entry[q].tracker

\* The file holds the ledger of w (alone or followed by the rest of an
\* older content), in which the record of l is missing.
KeepsOnly(w, l) ==
    /\ file \in {Document(NewLedger(w)), [Document(NewLedger(w)) EXCEPT !.kind = "mixed"]}
    /\ \A i \in 1..Len(file.purchases.items) :
           file.purchases.items[i] # to_dict(req[l].purchase)
    /\ file.total_zec = NumStr(entry[w].tracker.total_zec + req[w].purchase.zec_bought)
    /\ file.total_eur_spent =
           NumStr(entry[w].tracker.total_eur_spent + req[w].purchase.eur_spent)

C7_LostUpdate ==
    \A p \in Procs : \A q \in Procs :
        BothBought(p, q) => (KeepsOnly(p, q) \/ KeepsOnly(q, p))

\* Both bots loaded the one-record ledger, both orders filled, both saves
\* succeeded; the file loads, and holds two records where three were bought.
C7_Witness ==
    /\ BothBought("a", "b")
    /\ loaded["a"].content = GoodFile
    /\ loaded["b"].content = GoodFile
    /\ req["a"].purchase.zec_bought > 0
    /\ req["b"].purchase.zec_bought > 0
    /\ orders = 2
    /\ Loads(file)
    /\ Len(file.purchases.items) = 2
    /\ file.total_zec = NumStr(60000000)

-----------------------------------------------------------------------------
(* C8.  After a load that did not fall back to the empty ledger, the       *)
(* totals of the loaded ledger are the sums over its records.              *)
C8_LoadedTotalsMatchRecords ==
    \A p \in Procs :
        (loaded[p].outcome = "loaded" /\ pc[p] = "ready" /\ ~req[p].active) =>
            Consistent(tracker[p])

-----------------------------------------------------------------------------
(* C9.  load_data never raises: whatever the file holds, the constructor   *)
(* gets an empty ledger (no file, or a malformed one, with a warning) or   *)
(* the ledger read.                                                        *)
C9_LoadNeverRaises ==
    \A p \in Procs :
        /\ loaded[p].outcome # "raised"
        /\ (loaded[p].outcome # "none" /\ ~Loads(loaded[p].content)) =>
               /\ tracker[p] = EmptyTracker \/ req[p].active
               /\ loaded[p].outcome =
                      IF loaded[p].content = Missing THEN "fresh" ELSE "warned"

-----------------------------------------------------------------------------
(* C10.  After a load that found a corrupt file, a buy that does not end   *)
(* in a successful add_purchase (a dry run, a failed buy, a buy whose save *)
(* fails) leaves the corrupt file as it was.                               *)
C10_CorruptFileKept ==
    \A p \in Procs :
        (/\ loaded[p].outcome = "warned"
         /\ pc[p] = "ready"
         /\ req[p].active => (entry[p].file = loaded[p].content /\ ~LiveSuccess(p)))
        => file = loaded[p].content

-----------------------------------------------------------------------------
(* C11.  The record of every live buy whose order was accepted, as it is   *)
(* appended to the ledger and saved, has a quantity above zero and an      *)
(* amount spent above zero, whatever fill the exchange reported.           *)
C11_RecordsPositive ==
    \A p \in Procs :
        LiveSuccess(p) =>
            /\ req[p].purchase.zec_bought > 0
            /\ req[p].purchase.eur_spent > 0
            /\ \A i \in 1..Len(tracker[p].purchases) :
                   /\ tracker[p].purchases[i].zec_bought > 0
                   /\ tracker[p].purchases[i].eur_spent > 0

-----------------------------------------------------------------------------
(* C12.  The ledger on disk is append-only: at every step of every run     *)
(* (live, dry-run and failing buys, crashes and restarts) the records a    *)
(* load of the file gives before the step are a prefix of the records a    *)
(* load gives after it, and neither total is lower after it.               *)

\* The ledger a bot started now would read from the file content f.
OnDisk(f) == load_data(f).tracker

IsPrefix(s, t) == Len(s) <= Len(t) /\ \A i \in 1..Len(s) : s[i] = t[i]

C12_DiskAppendOnly ==
    [][/\ IsPrefix(OnDisk(file).purchases, OnDisk(file').purchases)
       /\ OnDisk(file).total_zec <= OnDisk(file').total_zec
       /\ OnDisk(file).total_eur_spent <= OnDisk(file').total_eur_spent]_vars

-----------------------------------------------------------------------------
(* C13.  A buy whose budget, truncated to cents, is zero or negative (so   *)
(* every buy with a non-positive budget) returns the failure "Amount must  *)
(* be greater than 0", has made no external call (no price fetch, no       *)
(* order, no file opened), and leaves the ledger in memory and the file as *)
(* they were on entry.                                                     *)
C13_BadBudgetFailsFast ==
    \A p \in Procs :
        (req[p].active /\ req[p].amount <= 0) =>
            /\ pc[p] = "ready"
            /\ result[p] = Failure("Amount must be greater than 0")
            /\ calls[p] = <<>>
            /\ tracker[p] = entry[p].tracker
            /\ file = entry[p].file

\* A buy with a negative budget has returned, on a ledger with a record.
C13_Witness ==
    /\ Returned("a")
    /\ req["a"].amount < 0
    /\ ~result["a"].success
    /\ Len(tracker["a"].purchases) = 1
    /\ Loads(file)

-----------------------------------------------------------------------------
(* C14.  In a successful live buy the record appended to the ledger, saved *)
(* and reported has the filled quantity as its quantity and the reported   *)
(* cost as its amount spent; its price is the greatest number of cents per *)
(* ZEC that, times the filled quantity, does not exceed the cost when the  *)
(* fill is above zero, and the price fetched before the trade when the     *)
(* fill is zero.                                                           *)

\* price is eur / zec truncated to cents, for zec a positive multiple of
\* 0.1 ZEC: price * zec <= eur < (price + 1) * zec, both sides in
\* 10^-9 EUR.
IsPriceRoundedDown(price, eur, zec) ==
    /\ zec > 0
    /\ zec % 10000000 = 0
    /\ price * (zec \div 10000000) <= eur * 10
    /\ eur * 10 < (price + 1) * (zec \div 10000000)

C14_RecordFromFill ==
    \A p \in Procs :
        LiveSuccess(p) =>
            LET record == tracker[p].purchases[Len(tracker[p].purchases)]
                order == req[p].order
            IN  /\ Len(tracker[p].purchases) = Len(entry[p].tracker.purchases) + 1
                /\ record.zec_bought = order.filled
                /\ record.eur_spent = order.cost
                /\ record.dry_run = Bool(FALSE)
                /\ IF order.filled > 0
                   THEN IsPriceRoundedDown(record.price_per_zec, order.cost,
                                           order.filled)
                   ELSE record.price_per_zec = req[p].price
                /\ result[p].purchase = to_dict(record)
                /\ file.purchases.items[Len(file.purchases.items)] = to_dict(record)

\* A successful live buy quoted 33.34 and filled 0.3 ZEC for 10.00 EUR:
\* the record holds 33.33.
C14_Witness ==
    /\ LiveSuccess("a")
    /\ req["a"].price = 3334
    /\ req["a"].order = [filled |-> 30000000, cost |-> 1000]
    /\ tracker["a"].purchases[Len(tracker["a"].purchases)].price_per_zec = 3333

\* A successful live buy quoted 33.34 and filled nothing: the record holds
\* the quoted price.
C14_WitnessNoFill ==
    /\ LiveSuccess("a")
    /\ req["a"].order.filled = 0
    /\ tracker["a"].purchases[Len(tracker["a"].purchases)].price_per_zec = 3334

-----------------------------------------------------------------------------
(* C15.  For a positive budget and a positive price the quantity returned  *)
(* by calculate_zec_amount, in units of 10^-8 ZEC, is the greatest whose   *)
(* value at the price does not exceed the budget: quantity * price <=      *)
(* budget, and (quantity + 1 unit) * price > budget.                       *)

\* budget * 10^8 - quantity * price, for a budget and a price in cents and
\* a quantity in 10^-8 ZEC, computed in two halves of four digits.
Upper(budget, price, quantity) == budget * 10000 - (quantity \div 10000) * price
Unspent(budget, price, quantity) ==
    Upper(budget, price, quantity) * 10000 - (quantity % 10000) * price

C15_SizingRoundsDown ==
    \A p \in Procs :
        pc[p] = "sized" =>
            LET budget == req[p].amount
                price == req[p].price
                quantity == req[p].zec_amount
            IN  /\ budget > 0 /\ price > 0
                /\ quantity >= 0
                /\ Upper(budget, price, quantity) >= 0
                /\ Upper(budget, price, quantity) <= price
                /\ Unspent(budget, price, quantity) >= 0
                /\ Unspent(budget, price, quantity) < price

\* 100.00 EUR at 33.33: 3.00030003 ZEC, and something is left unspent.
C15_Witness ==
    /\ pc["a"] = "sized"
    /\ req["a"].amount = 10000
    /\ req["a"].price = 3333
    /\ req["a"].zec_amount = 300030003
    /\ Unspent(10000, 3333, req["a"].zec_amount) > 0

-----------------------------------------------------------------------------
(* C16.  A bot constructed on the file written by save_data holds the      *)
(* ledger that was saved: load_data takes its normal branch, and both      *)
(* totals and every record (date, quantity, amount, price, order id,       *)
(* simulated flag), in order, are those of the saved ledger.               *)
C16_SaveLoadIdentity ==
    \A p \in Procs :
        pc[p] = "ready" =>
            /\ loaded[p].outcome = "loaded"
            /\ loaded[p].content = file
            /\ tracker[p] = entry[p].tracker

\* A ledger of two records, one with an order id and one simulated without,
\* and totals that are not zero, has been saved and loaded again.
C16_Witness ==
    /\ pc["a"] = "ready"
    /\ Len(tracker["a"].purchases) = 2
    /\ tracker["a"].purchases[1].order_id = Str(1)
    /\ tracker["a"].purchases[2].order_id = Null
    /\ tracker["a"].purchases[2].dry_run = Bool(TRUE)
    /\ tracker["a"].total_zec = 30000001
    /\ tracker["a"].total_eur_spent = 1001

-----------------------------------------------------------------------------
(* C17.  A buy of a constructed bot is under way or has returned a         *)
(* dictionary with a success flag, with a purchase when the flag is set    *)
(* and a non-empty error when it is not; and a buy under way comes to its  *)
(* return, unless the process is killed first.                             *)
InBuy(p) == pc[p] \in {"fetch", "exec", "record", "write"}

Structured(r) ==
    /\ "success" \in r.keys
    /\ IF r.success THEN "purchase" \in r.keys
       ELSE "error" \in r.keys /\ r.error # ""

C17_BuyReturnsResult ==
    /\ [](\A p \in Procs :
            req[p].active =>
                InBuy(p) \/ (pc[p] = "ready" /\ Structured(result[p])))
    /\ \A p \in Procs : InBuy(p) ~> (Returned(p) \/ pc[p] = "none")

\* A live buy whose order was filled has returned a failure: the save
\* failed.
C17_Witness ==
    /\ Returned("a")
    /\ SaveFailed("a")
    /\ result["a"] = Failure("OSError")

-----------------------------------------------------------------------------
(* C18.  The external calls of one buy are, in this order and each at most *)
(* once, the price fetch, the order, the open of the tracking file and the *)
(* write, none of them skipped; a dry run stops after the price fetch; a   *)
(* call that fails is the last one and buy returns a failure; the record   *)
(* is appended once, with the open, so only after the order was accepted;  *)
(* and success is reported only after all of them.                         *)
Rank(name) ==
    CASE name = "fetch_ticker" -> 1
      [] name = "create_market_buy_order" -> 2
      [] name = "open" -> 3
      [] name = "write" -> 4

\* How many external calls buy has made when it stands at a point.
CallsBefore(at) ==
    CASE at = "fetch" -> 0
      [] at = "exec" -> 1
      [] at = "record" -> 2
      [] at = "write" -> 3

C18_StepsInOrder ==
    \A p \in Procs :
        LET c == calls[p]
            appended == Len(tracker[p].purchases) - Len(entry[p].tracker.purchases)
        IN  /\ \A i \in 1..Len(c) : Rank(c[i].call) = i
            /\ \A i \in 1..(Len(c) - 1) : c[i].ok
            /\ (c # <<>> /\ ~c[Len(c)].ok) =>
                   pc[p] = "ready" /\ ~result[p].success
            /\ InBuy(p) => Len(c) = CallsBefore(pc[p])
            /\ req[p].active =>
                   /\ req[p].dry_run => Len(c) <= 1
                   /\ appended = IF Len(c) >= 3 THEN 1 ELSE 0
                   /\ (Returned(p) /\ result[p].success) =>
                          /\ Len(c) = IF req[p].dry_run THEN 1 ELSE 4
                          /\ c[Len(c)].ok

\* A live buy has returned success after its four calls.
C18_Witness ==
    /\ Returned("a")
    /\ result["a"].success
    /\ calls["a"] = << Call("fetch_ticker", TRUE),
                       Call("create_market_buy_order", TRUE),
                       Call("open", TRUE), Call("write", TRUE) >>

\* A live buy has returned after its order failed, with two calls made.
C18_WitnessFailure ==
    /\ Returned("a")
    /\ calls["a"] = << Call("fetch_ticker", TRUE),
                       Call("create_market_buy_order", FALSE) >>

-----------------------------------------------------------------------------
(* C19.  When load_data has returned, and until the first buy, the ledger  *)
(* in memory is either the one the file holds, totals and every record, or *)
(* the empty ledger: zero totals and no record.  After a record or a total *)
(* failed to parse it is the empty ledger.                                 *)
C19_LoadAllOrNothing ==
    \A p \in Procs :
        (pc[p] = "ready" /\ ~req[p].active) =>
            LET f == loaded[p].content
            IN  /\ loaded[p].outcome \in {"fresh", "loaded", "warned"}
                /\ \/ tracker[p] = EmptyTracker
                   \/ /\ loaded[p].outcome = "loaded"
                      /\ tracker[p].total_zec = OptionalValue(f.total_zec)
                      /\ tracker[p].total_eur_spent = OptionalValue(f.total_eur_spent)
                      /\ Len(tracker[p].purchases) = Len(f.purchases.items)
                      /\ \A i \in 1..Len(f.purchases.items) :
                             to_dict(tracker[p].purchases[i]) = f.purchases.items[i]
                /\ loaded[p].outcome = "warned" => tracker[p] = EmptyTracker

\* load_data has returned on a file with totals that parse and a second
\* record that does not: the ledger is empty.
C19_Witness ==
    /\ pc["a"] = "ready"
    /\ ~req["a"].active
    /\ loaded["a"].outcome = "warned"
    /\ loaded["a"].content.total_zec = NumStr(30000000)
    /\ Len(loaded["a"].content.purchases.items) = 2
    /\ tracker["a"] = EmptyTracker

-----------------------------------------------------------------------------
(* C20.  When the price fetched truncates to 0.00, buy, live or dry run,   *)
(* returns a failure, has made no call after the price fetch (no order, no *)
(* file opened), and leaves the ledger in memory and the file as they were *)
(* on entry.                                                               *)
PricedZero(p) ==
    /\ req[p].active
    /\ Did(p, "fetch_ticker", TRUE)
    /\ req[p].price = 0

C20_ZeroPriceFails ==
    \A p \in Procs :
        PricedZero(p) =>
            /\ pc[p] = "ready"
            /\ ~result[p].success
            /\ result[p].keys = {"success", "error"}
            /\ calls[p] = << Call("fetch_ticker", TRUE) >>
            /\ tracker[p] = entry[p].tracker
            /\ file = entry[p].file

\* A live buy on a ledger with a record was quoted 0.009 EUR.
C20_Witness ==
    /\ PricedZero("a")
    /\ ~req["a"].dry_run
    /\ req["a"].amount = 1000
    /\ Len(tracker["a"].purchases) = 1
    /\ Loads(file)

\* A dry run was quoted 0.009 EUR.
C20_WitnessDryRun ==
    /\ PricedZero("a")
    /\ req["a"].dry_run
    /\ result["a"] = Failure("DivisionByZero")

=============================================================================
